---------------------------- MODULE Spec2Model ----------------------------
(***************************************************************************)
(* Model of ixmp_server_workflow/timeseries.py: the four timeseries        *)
(* validators, the region-mapping resolver and the logging helper.         *)
(*                                                                         *)
(* Names (models, scenarios, regions, variables, units) are naturals.      *)
(* A dataframe is a sequence of rows; a variable configuration is the      *)
(* ordered dict yaml.load returns, a sequence of entries with distinct     *)
(* keys; a mappings directory either is no directory or lists files in     *)
(* os.listdir order.  A run of a function is one call; every behaviour     *)
(* makes the same call twice (two runs on the same inputs).                *)
(***************************************************************************)
EXTENDS Integers, Sequences, FiniteSets

(* ------------------------------ bounds --------------------------------- *)
MaxRows == 3
MaxRegionRows == 2
MaxFiles == 2
MaxErrors == 3
MaxLimit == 2
NumSeeds == 3

(* --------------------------- program constants ------------------------- *)
\* limit=100, the default of log_validation_errors
DefaultLimit == 100
\* the region name 'World', valid for every model
World == 9

Models == {1, 2}
Scenarios == {1, 2}
Regions == {World, 1, 2}
Variables == {1, 2}
Units == {1, 2}
Seeds == 1..NumSeeds

(* ------------------------------ helpers -------------------------------- *)
Min(a, b) == IF a <= b THEN a ELSE b
Max(a, b) == IF a >= b THEN a ELSE b

Range(s) == {s[i] : i \in 1..Len(s)}

RECURSIVE SeqsUpTo(_, _)
SeqsUpTo(S, n) ==
    IF n = 0 THEN {<<>>}
    ELSE LET shorter == SeqsUpTo(S, n - 1)
         IN  shorter \cup {Append(s, x) : s \in {t \in shorter : Len(t) = n - 1}, x \in S}

\* pandas Series.unique(): the distinct values in order of first appearance
FirstAt(s) == {k \in 1..Len(s) : \A j \in 1..(k - 1) : s[j] # s[k]}
Unique(s) ==
    LET first == FirstAt(s)
    IN  [n \in 1..Cardinality(first) |->
            s[CHOOSE k \in first : Cardinality({j \in first : j < k}) = n - 1]]

\* df[mask], the rows satisfying the mask in order, is SelectSeq(df, Mask).

Column(df, c) == [i \in 1..Len(df) |-> df[i][c]]

\* The iteration order of a Python set of str depends on the process's hash
\* seed: a set is listed by increasing hash of its elements.
HashMod == DefaultLimit + 3
Mult(seed) == IF seed = 1 THEN 1
              ELSE IF seed = 2 THEN HashMod - 1
              ELSE (49 + seed) % HashMod
Hash(seed, x) == ((x + seed) * Mult(seed)) % HashMod

\* mutant: only the first element in iteration order is taken
SetOrderFirst(S, seed) ==
    IF S = {} THEN <<>>
    ELSE <<CHOOSE x \in S : \A y \in S : Hash(seed, x) <= Hash(seed, y)>>

\* list(S), ", ".join(S): the elements of S by increasing hash
SetOrder(S, seed) ==
    [n \in 1..Cardinality(S) |->
        CHOOSE x \in S : Cardinality({y \in S : Hash(seed, y) < Hash(seed, x)}) = n - 1]

(* --------------------------- log messages ------------------------------ *)
\* One record of the logging channel.  fmt is the f-string of the call:
\*   "heading"  f'{message}:'            text = message
\*   "bullet"   f'- {error}'             arg, items = the error
\*   "more"     f'and {n} more...'       arg = n
\*   "line"     a fixed sentence, text, formatted with arg and the
\*              comma-joined items
Msg(level, fmt, text, arg, items) ==
    [level |-> level, fmt |-> fmt, text |-> text, arg |-> arg, items |-> items]

\* an error string of a batch: a bare name (items = <<>>) or
\* '<variable>: <comma-joined units>'
Err(arg, items) == [arg |-> arg, items |-> items]
NameErrs(names) == [i \in 1..Len(names) |-> Err(names[i], <<>>)]

\* errors[:limit] of Python
Slice(errors, limit) ==
    IF limit >= 0 THEN SubSeq(errors, 1, Min(limit, Len(errors)))
    ELSE SubSeq(errors, 1, Max(0, Len(errors) + limit))

\* mutant: the summary line counts every error, not the suppressed ones
log_validation_errors_count(message, errors, level, limit) ==
    LET shown == Slice(errors, limit)
    IN  <<Msg(level, "heading", message, 0, <<>>)>>
        \o [i \in 1..Len(shown) |-> Msg(level, "bullet", "", shown[i].arg, shown[i].items)]
        \o (IF Len(errors) > limit
            THEN <<Msg(level, "more", "", Len(errors), <<>>)>>
            ELSE <<>>)

log_validation_errors(message, errors, level, limit) ==
    LET shown == Slice(errors, limit)
    IN  <<Msg(level, "heading", message, 0, <<>>)>>
        \o [i \in 1..Len(shown) |-> Msg(level, "bullet", "", shown[i].arg, shown[i].items)]
        \o (IF Len(errors) > limit
            THEN <<Msg(level, "more", "", Len(errors) - limit, <<>>)>>
            ELSE <<>>)

NoErr == Msg("", "", "", 0, <<>>)

\* what a call gives back: how it ended ("True", "False", "mapping", or the
\* exception raised), the mapping returned (<<>> if none), the exception's
\* message (NoErr if none) and the messages logged
Out(status, value, err, log) ==
    [status |-> status, value |-> value, err |-> err, log |-> log]

(* ------------------- validate_variables_and_units ---------------------- *)
ConfigKeys(variable_config) == {variable_config[i].variable : i \in 1..Len(variable_config)}

UnknownVariables(df, variable_config) ==
    Range(Unique(Column(df, "variable"))) \ ConfigKeys(variable_config)

\* mutant: selects the rows whose unit equals the configured one
UnknownUnitsEqual(df, entry) ==
    LET Mismatch(row) == row.variable = entry.variable /\ row.unit = entry.unit
    IN  Unique(Column(SelectSeq(df, Mismatch), "unit"))

UnknownUnits(df, entry) ==
    LET Mismatch(row) == row.variable = entry.variable /\ row.unit # entry.unit
    IN  Unique(Column(SelectSeq(df, Mismatch), "unit"))

RECURSIVE UnknownVariableUnits(_, _)
\* the accumulator unknown_variable_units after the loop over variable_config
UnknownVariableUnits(df, variable_config) ==
    IF variable_config = <<>> THEN <<>>
    ELSE LET n == Len(variable_config)
             entry == variable_config[n]
             before == UnknownVariableUnits(df, SubSeq(variable_config, 1, n - 1))
             unknown_units == UnknownUnits(df, entry)
         IN  IF Len(unknown_units) > 0
             THEN Append(before, Err(entry.variable, unknown_units))
             ELSE before

validate_variables_and_units(df, variable_config, seed) ==
    LET unknown_variables == UnknownVariables(df, variable_config)
        unknown_variable_units == UnknownVariableUnits(df, variable_config)
        valid == ~(Cardinality(unknown_variables) > 0) /\ ~(Len(unknown_variable_units) > 0)
    IN  Out(IF valid THEN "True" ELSE "False", <<>>, NoErr,
            <<Msg("DEBUG", "line", "Start variables/units validation", 0, <<>>)>>
            \o (IF Cardinality(unknown_variables) > 0
                THEN log_validation_errors("Unknown variable(s)",
                         NameErrs(SetOrder(unknown_variables, seed)), "WARNING", DefaultLimit)
                ELSE <<>>)
            \o (IF Len(unknown_variable_units) > 0
                THEN log_validation_errors("Unknown unit(s) for variable(s):",
                         unknown_variable_units, "WARNING", DefaultLimit)
                ELSE <<>>)
            \o <<Msg("DEBUG", "line", "Finish variables/units validation", 0, <<>>)>>)

(* -------------------- validate_required_variables ---------------------- *)
\* mutant: variable_config[variable]['required'], a missing key read as True
RequiredDefaultTrue(entry) == IF entry.has_required THEN entry.required ELSE TRUE

\* variable_config[variable].get('required', False)
Required(entry) == IF entry.has_required THEN entry.required ELSE FALSE

InvalidModels(df, variable) ==
    LET IsVar(row) == row.variable = variable
    IN  Range(Unique(Column(df, "model")))
            \ Range(Unique(Column(SelectSeq(df, IsVar), "model")))

\* mutant: the scenario check is skipped
InvalidScenariosNone(df, variable) == {}

InvalidScenarios(df, variable) ==
    LET IsVar(row) == row.variable = variable
    IN  Range(Unique(Column(df, "scenario")))
            \ Range(Unique(Column(SelectSeq(df, IsVar), "scenario")))

MissModels == "Following models miss required variable {variable}: {models}"
MissScenarios == "Following scenarios miss required variable {variable}: {scenarios}"

\* the body of the loop for one variable: the warnings it logs
RequiredWarnings(df, entry, seed) ==
    IF Required(entry)
    THEN LET invalid_models == InvalidModels(df, entry.variable)
             invalid_scenarios == InvalidScenarios(df, entry.variable)
         IN  (IF Cardinality(invalid_models) > 0
              THEN <<Msg("WARNING", "line", MissModels, entry.variable,
                         SetOrder(invalid_models, seed))>>
              ELSE <<>>)
             \o (IF Cardinality(invalid_scenarios) > 0
                 THEN <<Msg("WARNING", "line", MissScenarios, entry.variable,
                            SetOrder(invalid_scenarios, seed))>>
                 ELSE <<>>)
    ELSE <<>>

RECURSIVE RequiredLoop(_, _, _)
RequiredLoop(df, variable_config, seed) ==
    IF variable_config = <<>> THEN <<>>
    ELSE LET n == Len(variable_config)
         IN  RequiredLoop(df, SubSeq(variable_config, 1, n - 1), seed)
             \o RequiredWarnings(df, variable_config[n], seed)

\* valid after the loop: no required variable set it to False
RequiredValid(df, variable_config) ==
    \A k \in 1..Len(variable_config) :
        Required(variable_config[k]) =>
            /\ ~(Cardinality(InvalidModels(df, variable_config[k].variable)) > 0)
            /\ ~(Cardinality(InvalidScenarios(df, variable_config[k].variable)) > 0)

validate_required_variables(df, variable_config, seed) ==
    LET warnings == RequiredLoop(df, variable_config, seed)
        valid == RequiredValid(df, variable_config)
    IN  Out(IF valid THEN "True" ELSE "False", <<>>, NoErr,
            <<Msg("DEBUG", "line", "Start required variables validation", 0, <<>>)>>
            \o warnings
            \o <<Msg("DEBUG", "line", "Finish required variables validation", 0, <<>>)>>)

(* --------------------- validate_allowed_scenarios ---------------------- *)
\* mutant: the allowed scenarios that the dataset lacks
UnknownScenariosReversed(df, allowed_scenarios) ==
    Range(allowed_scenarios) \ Range(Unique(Column(df, "scenario")))

UnknownScenarios(df, allowed_scenarios) ==
    Range(Unique(Column(df, "scenario"))) \ Range(allowed_scenarios)

validate_allowed_scenarios(df, allowed_scenarios, seed) ==
    LET unknown_scenarios == UnknownScenarios(df, allowed_scenarios)
        valid == ~(Cardinality(unknown_scenarios) > 0)
    IN  Out(IF valid THEN "True" ELSE "False", <<>>, NoErr,
            IF Cardinality(unknown_scenarios) > 0
            THEN log_validation_errors("Scenario(s) not allowed",
                     NameErrs(SetOrder(unknown_scenarios, seed)), "WARNING", DefaultLimit)
            ELSE <<>>)

(* -------------------------- get_region_mapping ------------------------- *)
\* the parsed content of a mapping file: a dict that may lack any of its keys
Content(file) ==
    [has_model |-> file.has_model, model |-> file.model,
     has_native |-> file.has_native, native_regions |-> file.native_regions,
     has_aggregation |-> file.has_aggregation,
     region_aggregation |-> file.region_aggregation]

\* filename.endswith(".yaml") or filename.endswith(".yml")
IsYaml(file) == file.ext = ".yaml" \/ file.ext = ".yml"

\* region_mapping.get('model') == model
DeclaresModel(file, model) == file.has_model /\ file.model = model

NoDirectory == "Directory containing region mappings does not exists: {path}"
NotFound == "No region mapping found for model {model} in path {path}"

RECURSIVE SearchListingLast(_, _)
\* mutant: the loop does not return at the first match, the last one wins
SearchListingLast(listing, model) ==
    IF listing = <<>> THEN <<>>
    ELSE LET n == Len(listing)
         IN  IF IsYaml(listing[n]) /\ DeclaresModel(listing[n], model)
             THEN <<Content(listing[n])>>
             ELSE SearchListingLast(SubSeq(listing, 1, n - 1), model)

RECURSIVE SearchListing(_, _)
\* the loop over os.listdir: <<the first match>>, or <<>> when it falls through
SearchListing(listing, model) ==
    IF listing = <<>> THEN <<>>
    ELSE IF IsYaml(Head(listing)) /\ DeclaresModel(Head(listing), model)
         THEN <<Content(Head(listing))>>
         ELSE SearchListing(Tail(listing), model)

get_region_mapping(mappings, model) ==
    IF ~mappings.isdir
    THEN LET msg == Msg("ERROR", "line", NoDirectory, 0, <<>>)
         IN  Out("IxmpServerWorkflowError", <<>>, msg, <<msg>>)
    ELSE LET found == SearchListing(mappings.listing, model)
         IN  IF found # <<>>
             THEN Out("mapping", found, NoErr, <<>>)
             ELSE Out("IxmpServerWorkflowError", <<>>,
                      Msg("ERROR", "line", NotFound, model, <<>>), <<>>)

(* ----------------------- validate_region_mappings ---------------------- *)
\* mutant: 'World' is not added to the valid names
ValidRegionNamesNoWorld(region_mapping) ==
    region_mapping.native_regions \cup region_mapping.region_aggregation

ValidRegionNames(region_mapping) ==
    region_mapping.native_regions \cup region_mapping.region_aggregation \cup {World}

InvalidRegionNames(df, model, region_mapping) ==
    LET OfModel(row) == row.model = model
    IN  Range(Unique(Column(SelectSeq(df, OfModel), "region")))
            \ ValidRegionNames(region_mapping)

UnknownRegions == "Model {model} contains unknown region names: {regions}"

\* mutant: the except clause returns instead of continuing
AfterConfigErrorAbort(i, n) == n + 1

\* the index the loop goes on with after the except clause (continue)
AfterConfigError(i, n) == i + 1

\* One pass of the loop body for `model`.  status is "ok" (regions valid),
\* "invalid" (valid = False), "IxmpServerWorkflowError" (caught: logged,
\* valid = False) or "KeyError" (region_mapping[...] of a missing key: not
\* caught, the call ends with it).
RegionBody(df, mappings, model, seed) ==
    LET got == get_region_mapping(mappings, model)
    IN  IF got.status = "IxmpServerWorkflowError"
        THEN Out("IxmpServerWorkflowError", <<>>, got.err,
                 got.log \o <<[got.err EXCEPT !.level = "ERROR"]>>)
        ELSE LET region_mapping == got.value[1]
             IN  IF ~region_mapping.has_native \/ ~region_mapping.has_aggregation
                 THEN Out("KeyError", <<>>, NoErr, got.log)
                 ELSE LET invalid_region_names ==
                              InvalidRegionNames(df, model, region_mapping)
                      IN  IF invalid_region_names # {}
                          THEN Out("invalid", <<>>, NoErr,
                                   got.log \o <<Msg("WARNING", "line", UnknownRegions, model,
                                                    SetOrder(invalid_region_names, seed))>>)
                          ELSE Out("ok", <<>>, NoErr, got.log)

(* ------------------------------- state --------------------------------- *)
VARIABLES
    fn,        \* the function called
    args,      \* its arguments (those it does not take keep their defaults)
    run,       \* 1 or 2: the first or the second call on the same arguments
    pc,        \* "start", "loop" (inside validate_region_mappings), "done"
    status,    \* "": running; "True"/"False"/"mapping": returned; else the exception raised
    value,     \* <<the mapping returned>>, or <<>>
    log,       \* the messages this call has logged so far
    models,    \* validate_region_mappings: list(df.model.unique())
    i,         \* validate_region_mappings: index of the next model
    valid,     \* validate_region_mappings: the local `valid`
    prev       \* the outcome of the first call, once the second has started

vars == <<fn, args, run, pc, status, value, log, models, i, valid, prev>>

Validators == {"validate_variables_and_units", "validate_required_variables",
               "validate_allowed_scenarios", "validate_region_mappings"}

(* ------------------------------ inputs --------------------------------- *)
Row(m, s, r, v, u) == [model |-> m, scenario |-> s, region |-> r, variable |-> v, unit |-> u]

RowsVU == {Row(1, 1, World, v, u) : v \in Variables, u \in Units}
RowsRV == {Row(m, s, World, v, 1) : m \in Models, s \in Scenarios, v \in Variables}
RowsAS == {Row(1, s, World, 1, 1) : s \in Scenarios}
RowsRM == {Row(m, 1, r, 1, 1) : m \in Models, r \in Regions}

\* a dataset of n rows with the n distinct scenarios 1..n
WideDf(n) == [k \in 1..n |-> Row(1, k, World, 1, 1)]

Entry(v, u, has, req) == [variable |-> v, unit |-> u, has_required |-> has, required |-> req]
DistinctKeys(cfg) == \A a, b \in 1..Len(cfg) : cfg[a].variable = cfg[b].variable => a = b
ConfigsOf(entries) == {c \in SeqsUpTo(entries, Cardinality(Variables)) : DistinctKeys(c)}
ConfigsVU == ConfigsOf({Entry(v, u, FALSE, FALSE) : v \in Variables, u \in Units})
ConfigsRV == ConfigsOf({Entry(v, 1, h, r) : v \in Variables,
                                              h \in BOOLEAN, r \in BOOLEAN} \
                       {Entry(v, 1, FALSE, TRUE) : v \in Variables})

File(ext, hm, m, hn, n, ha, a) ==
    [ext |-> ext, has_model |-> hm, model |-> m, has_native |-> hn, native_regions |-> n,
     has_aggregation |-> ha, region_aggregation |-> a]

\* mapping files: a complete mapping of model 1 under each extension, and
\* under .yaml a mapping of model 2 with no region, mappings that lack
\* native_regions, region_aggregation or model
Files ==
    {File(e, TRUE, 1, TRUE, {1}, TRUE, {2}) : e \in {".yaml", ".yml", ".txt"}} \cup
    {File(".yaml", TRUE, 2, TRUE, {}, TRUE, {}),
     File(".yaml", TRUE, 1, FALSE, {}, TRUE, {2}),
     File(".yaml", TRUE, 2, TRUE, {1}, FALSE, {}),
     File(".yaml", FALSE, 0, TRUE, {1}, TRUE, {2})}

Directory(isdir, listing) == [isdir |-> isdir, listing |-> listing]
Directories == {Directory(FALSE, <<>>)} \cup
               {Directory(TRUE, l) : l \in SeqsUpTo(Files, MaxFiles)}

ErrorBatches == SeqsUpTo({Err(1, <<>>), Err(2, <<1, 2>>)}, MaxErrors)

NoArgs ==
    [df |-> <<>>, variable_config |-> <<>>, allowed_scenarios |-> <<>>,
     mappings |-> Directory(FALSE, <<>>), model |-> 0,
     message |-> "", errors |-> <<>>, level |-> "", limit |-> 0]

ArgsOf(f) ==
    CASE f = "validate_variables_and_units" ->
           {[NoArgs EXCEPT !.df = d, !.variable_config = c] :
                d \in SeqsUpTo(RowsVU, MaxRows), c \in ConfigsVU}
      [] f = "validate_required_variables" ->
           {[NoArgs EXCEPT !.df = d, !.variable_config = c] :
                d \in SeqsUpTo(RowsRV, MaxRows), c \in ConfigsRV}
      [] f = "validate_allowed_scenarios" ->
           {[NoArgs EXCEPT !.df = d, !.allowed_scenarios = a] :
                d \in SeqsUpTo(RowsAS, MaxRows), a \in SeqsUpTo(Scenarios, 2)}
           \cup {[NoArgs EXCEPT !.df = WideDf(n), !.allowed_scenarios = a] :
                    n \in {DefaultLimit, DefaultLimit + 1}, a \in {<<>>, <<1>>}}
      [] f = "validate_region_mappings" ->
           {[NoArgs EXCEPT !.df = d, !.mappings = m] :
                d \in SeqsUpTo(RowsRM, MaxRegionRows), m \in Directories}
      [] f = "get_region_mapping" ->
           {[NoArgs EXCEPT !.mappings = m, !.model = x] :
                m \in Directories, x \in Models}
      [] f = "log_validation_errors" ->
           {[NoArgs EXCEPT !.message = h, !.errors = e, !.level = l, !.limit = k] :
                h \in {"Unknown variable(s)", "Scenario(s) not allowed"},
                e \in ErrorBatches, l \in {"WARNING", "ERROR"}, k \in (-1)..MaxLimit}

Functions == Validators \cup {"get_region_mapping", "log_validation_errors"}

NoPrev == [status |-> "", value |-> <<>>, log |-> <<>>]

Init ==
    /\ fn \in Functions
    /\ args \in ArgsOf(fn)
    /\ run = 1
    /\ pc = "start"
    /\ status = ""
    /\ value = <<>>
    /\ log = <<>>
    /\ models = <<>>
    /\ i = 0
    /\ valid = TRUE
    /\ prev = NoPrev

(* ------------------------------ actions -------------------------------- *)
\* A call that runs to its end in one step.  The process making a call has
\* any hash seed (\E s \in Seeds in the actions below); the seed is no state
\* of the program, it only fixes the order in which the sets are listed.
Finish(out) ==
    /\ pc' = "done"
    /\ status' = out.status
    /\ value' = out.value
    /\ log' = out.log
    /\ UNCHANGED <<fn, args, run, models, i, valid, prev>>

CallVariablesAndUnits ==
    /\ pc = "start" /\ fn = "validate_variables_and_units"
    /\ \E s \in Seeds : Finish(validate_variables_and_units(args.df, args.variable_config, s))

CallRequiredVariables ==
    /\ pc = "start" /\ fn = "validate_required_variables"
    /\ \E s \in Seeds : Finish(validate_required_variables(args.df, args.variable_config, s))

CallAllowedScenarios ==
    /\ pc = "start" /\ fn = "validate_allowed_scenarios"
    /\ \E s \in Seeds : Finish(validate_allowed_scenarios(args.df, args.allowed_scenarios, s))

CallGetRegionMapping ==
    /\ pc = "start" /\ fn = "get_region_mapping"
    /\ Finish(get_region_mapping(args.mappings, args.model))

CallLogValidationErrors ==
    /\ pc = "start" /\ fn = "log_validation_errors"
    /\ Finish(Out("None", <<>>, NoErr,
                  log_validation_errors(args.message, args.errors, args.level, args.limit)))

\* validate_region_mappings up to the loop: the models, and the empty case
RegionStart ==
    /\ pc = "start" /\ fn = "validate_region_mappings"
    /\ models' = Unique(Column(args.df, "model"))
    /\ IF Len(models') = 0
       THEN /\ log' = <<Msg("WARNING", "line", "No models to process!", 0, <<>>)>>
            /\ valid' = FALSE
       ELSE /\ log' = <<>>
            /\ valid' = TRUE
    /\ i' = 1
    /\ pc' = "loop"
    /\ UNCHANGED <<fn, args, run, status, value, prev>>

\* one iteration of `for model in models`
RegionIterate ==
    /\ pc = "loop" /\ i <= Len(models)
    /\ \E s \in Seeds :
       LET body == RegionBody(args.df, args.mappings, models[i], s)
       IN  /\ log' = log \o body.log
           /\ IF body.status = "KeyError"
              THEN /\ pc' = "done"
                   /\ status' = "KeyError"
                   /\ UNCHANGED <<i, valid>>
              ELSE /\ pc' = "loop"
                   /\ status' = status
                   /\ valid' = (IF body.status = "ok" THEN valid ELSE FALSE)
                   /\ i' = (IF body.status = "IxmpServerWorkflowError"
                            THEN AfterConfigError(i, Len(models))
                            ELSE i + 1)
    /\ UNCHANGED <<fn, args, run, value, models, prev>>

\* return valid
RegionReturn ==
    /\ pc = "loop" /\ i > Len(models)
    /\ pc' = "done"
    /\ status' = (IF valid THEN "True" ELSE "False")
    /\ UNCHANGED <<fn, args, run, value, log, models, i, valid, prev>>

\* the same call is made a second time
Rerun ==
    /\ pc = "done" /\ run = 1
    /\ prev' = [status |-> status, value |-> value, log |-> log]
    /\ run' = 2
    /\ pc' = "start"
    /\ status' = ""
    /\ value' = <<>>
    /\ log' = <<>>
    /\ models' = <<>>
    /\ i' = 0
    /\ valid' = TRUE
    /\ UNCHANGED <<fn, args>>

Next ==
    \/ CallVariablesAndUnits
    \/ CallRequiredVariables
    \/ CallAllowedScenarios
    \/ CallGetRegionMapping
    \/ CallLogValidationErrors
    \/ RegionStart
    \/ RegionIterate
    \/ RegionReturn
    \/ Rerun

Spec == Init /\ [][Next]_vars

(* ------------------------------ claims --------------------------------- *)
Done(f) == fn = f /\ pc = "done"
Rows == 1..Len(args.df)
Entries == 1..Len(args.variable_config)
Logged(m) == \E k \in 1..Len(log) : log[k] = m
Count(l, Test(_)) == Cardinality({k \in 1..Len(l) : Test(l[k])})

\* C1: validate_variables_and_units returns true if and only if every
\* variable occurring in the dataset is a key of the config and every row
\* whose variable is a key of the config has that variable's configured unit.
C1_VariablesAndUnitsIff ==
    Done("validate_variables_and_units") =>
        /\ status \in {"True", "False"}
        /\ status = "True" <=>
              /\ \A r \in Rows : \E e \in Entries :
                     args.variable_config[e].variable = args.df[r].variable
              /\ \A r \in Rows : \A e \in Entries :
                     args.variable_config[e].variable = args.df[r].variable
                         => args.df[r].unit = args.variable_config[e].unit

\* C1 witness: a call on two or more rows, with both variables configured,
\* returned true.
C1_Witness ==
    /\ Done("validate_variables_and_units")
    /\ status = "True"
    /\ Len(args.df) >= 2
    /\ Len(args.variable_config) = 2
    /\ \E r \in Rows : args.df[r].variable = 2

IsRequired(e) ==
    args.variable_config[e].has_required /\ args.variable_config[e].required = TRUE
HasRow(m, s, v) ==
    \E r \in Rows : /\ args.df[r].model = m
                    /\ args.df[r].scenario = s
                    /\ args.df[r].variable = v
ModelHas(m, v) == \E r \in Rows : args.df[r].model = m /\ args.df[r].variable = v
ScenarioHas(s, v) == \E r \in Rows : args.df[r].scenario = s /\ args.df[r].variable = v
PerModelAndScenario ==
    \A e \in Entries : IsRequired(e) =>
        \A r \in Rows : /\ ModelHas(args.df[r].model, args.variable_config[e].variable)
                        /\ ScenarioHas(args.df[r].scenario, args.variable_config[e].variable)

\* C2 as stated: validate_required_variables returns true only if every
\* model/scenario pair occurring in the dataset has a row for every required
\* variable.
C2_EveryPairHasRequired ==
    (Done("validate_required_variables") /\ status = "True") =>
        \A e \in Entries : IsRequired(e) =>
            \A r \in Rows : HasRow(args.df[r].model, args.df[r].scenario,
                                   args.variable_config[e].variable)

\* C2 as amended: validate_required_variables returns true only if every
\* model occurring in the dataset has a row for every required variable and
\* every scenario occurring in the dataset has one.
C2_EveryModelAndScenarioHasRequired ==
    (Done("validate_required_variables") /\ status = "True") => PerModelAndScenario

\* C2 witness: true is returned although a model/scenario pair of the
\* dataset has no row for a required variable.
C2_Witness ==
    /\ Done("validate_required_variables")
    /\ status = "True"
    /\ \E e \in Entries : /\ IsRequired(e)
                          /\ \E r \in Rows : ~HasRow(args.df[r].model, args.df[r].scenario,
                                                     args.variable_config[e].variable)

MissingModels(v) == {args.df[r].model : r \in Rows} \ {m \in Models : ModelHas(m, v)}
MissingScenarios(v) ==
    {args.df[r].scenario : r \in Rows} \ {x \in Scenarios : ScenarioHas(x, v)}
WarnsAbout(text, v, names) ==
    LET Is(m) == /\ m.level = "WARNING" /\ m.text = text /\ m.arg = v
                 /\ Range(m.items) = names /\ Len(m.items) = Cardinality(names)
    IN  Count(log, Is) = 1
NoWarning(text, v) ==
    LET Is(m) == m.text = text /\ m.arg = v
    IN  Count(log, Is) = 0

\* C3: validate_required_variables returns true if and only if every model
\* and every scenario of the dataset has a row for every variable with
\* required = true; other variables never count; every required variable is
\* checked, with exactly one models warning per required variable some model
\* misses (naming those models), one scenarios warning per required variable
\* some scenario misses, and none otherwise.
C3_RequiredVariablesIff ==
    Done("validate_required_variables") =>
        /\ status \in {"True", "False"}
        /\ status = "True" <=> PerModelAndScenario
        /\ \A e \in Entries :
             LET v == args.variable_config[e].variable
             IN  /\ IF IsRequired(e) /\ MissingModels(v) # {}
                    THEN WarnsAbout(MissModels, v, MissingModels(v))
                    ELSE NoWarning(MissModels, v)
                 /\ IF IsRequired(e) /\ MissingScenarios(v) # {}
                    THEN WarnsAbout(MissScenarios, v, MissingScenarios(v))
                    ELSE NoWarning(MissScenarios, v)
        /\ LET IsWarning(m) == m.level = "WARNING"
           IN  Count(log, IsWarning) =
                   Cardinality({e \in Entries : IsRequired(e) /\
                                   MissingModels(args.variable_config[e].variable) # {}})
                   + Cardinality({e \in Entries : IsRequired(e) /\
                                   MissingScenarios(args.variable_config[e].variable) # {}})

\* C3 witness: two required variables are each missed by a model, both are
\* reported (no short-circuit), and no scenario misses either.
C3_Witness ==
    /\ Done("validate_required_variables")
    /\ status = "False"
    /\ \A e \in Entries : IsRequired(e)
    /\ Len(args.variable_config) = 2
    /\ LET ModelsWarning(m) == m.text = MissModels
           ScenariosWarning(m) == m.text = MissScenarios
       IN  Count(log, ModelsWarning) = 2 /\ Count(log, ScenariosWarning) = 0

Matches(model) ==
    {k \in 1..Len(args.mappings.listing) :
        /\ args.mappings.listing[k].ext \in {".yaml", ".yml"}
        /\ args.mappings.listing[k].has_model
        /\ args.mappings.listing[k].model = model}
FirstMatch(model) ==
    args.mappings.listing[CHOOSE k \in Matches(model) : \A j \in Matches(model) : k <= j]
\* get_region_mapping raises the configuration error for this model
ConfigurationError(model) == ~args.mappings.isdir \/ Matches(model) = {}
\* the model resolves to a region mapping: a record with native_regions and
\* region_aggregation
Resolves(model) ==
    /\ ~ConfigurationError(model)
    /\ FirstMatch(model).has_native
    /\ FirstMatch(model).has_aggregation
RegionKnown(model, region) ==
    \/ region \in FirstMatch(model).native_regions
    \/ region \in FirstMatch(model).region_aggregation
    \/ region = World
UnknownRegionsOf(model) ==
    {args.df[r].region : r \in {q \in Rows : args.df[q].model = model}}
        \ {x \in Regions : RegionKnown(model, x)}

\* C4: validate_region_mappings returns true if and only if the dataset has
\* a model, every model of the dataset resolves to a region mapping, and
\* every region of a model's rows is a key of its native_regions, a key of
\* its region_aggregation, or World; a dataset of zero rows returns false
\* with the warning 'No models to process!'.
C4_RegionMappingsIff ==
    Done("validate_region_mappings") =>
        /\ status = "True" <=>
              /\ Len(args.df) > 0
              /\ \A r \in Rows : /\ Resolves(args.df[r].model)
                                 /\ RegionKnown(args.df[r].model, args.df[r].region)
        /\ Len(args.df) = 0 =>
              /\ status = "False"
              /\ Logged(Msg("WARNING", "line", "No models to process!", 0, <<>>))

\* C4 witness: a dataset of two models, one using World and one a mapped
\* region, returned true.
C4_Witness ==
    /\ Done("validate_region_mappings")
    /\ status = "True"
    /\ Len(models) = 2
    /\ \E r \in Rows : args.df[r].region = World
    /\ \E r \in Rows : args.df[r].region # World

\* C5: each of the four validators ends every call by returning a boolean,
\* also when a mapping file in the directory lacks an expected key.
C5_ValidatorsReturnBoolean ==
    (fn \in Validators /\ pc = "done") => status \in {"True", "False"}

ErrorLogged(model) ==
    \E k \in 1..Len(log) :
        /\ log[k].level = "ERROR"
        /\ \/ ~args.mappings.isdir /\ log[k].text = NoDirectory
           \/ args.mappings.isdir /\ log[k].text = NotFound /\ log[k].arg = model
UnknownRegionsWarned(model) ==
    \E k \in 1..Len(log) :
        /\ log[k].level = "WARNING"
        /\ log[k].text = UnknownRegions
        /\ log[k].arg = model
        /\ Range(log[k].items) = UnknownRegionsOf(model)

\* C6: in validate_region_mappings a model whose resolution fails with the
\* configuration error is logged and makes the result false, and the loop
\* goes on: a call that returns has resolved and region-checked every model,
\* so a model with a mapping and an unknown region is warned about whether
\* it comes before or after the failing one; once a model has failed, valid
\* is false in every later state of the call and false is returned.
C6_ConfigurationErrorContinues ==
    (fn = "validate_region_mappings" /\ pc \in {"loop", "done"}) =>
        /\ status \in {"True", "False"} => i = Len(models) + 1
        /\ \A j \in 1..Len(models) : j < i =>
              /\ ConfigurationError(models[j]) =>
                    /\ ErrorLogged(models[j])
                    /\ ~valid
                    /\ status \in {"", "False", "KeyError"}
              /\ (Resolves(models[j]) /\ UnknownRegionsOf(models[j]) # {}) =>
                    /\ UnknownRegionsWarned(models[j])
                    /\ ~valid

\* C6 witness: the call returned false after the first model failed with
\* the configuration error and the second, resolved, was warned about.
C6_Witness ==
    /\ Done("validate_region_mappings")
    /\ status = "False"
    /\ Len(models) = 2
    /\ ConfigurationError(models[1])
    /\ Resolves(models[2])
    /\ UnknownRegionsWarned(models[2])
    /\ Len(log) = 2 /\ log[1].level = "ERROR" /\ log[2].level = "WARNING"

ScenariosOfDf == {args.df[r].scenario : r \in Rows}
NotAllowed == ScenariosOfDf \ Range(args.allowed_scenarios)
IsBullet(m) == m.fmt = "bullet"
BulletFor(x) == Logged(Msg("WARNING", "bullet", "", x, <<>>))
HeadingLogged == Logged(Msg("WARNING", "heading", "Scenario(s) not allowed", 0, <<>>))

\* C7 as stated: validate_allowed_scenarios returns true if and only if
\* every scenario of the dataset is allowed; when it returns false the log
\* holds the heading and a bullet for every scenario that is not allowed,
\* and never a bullet for an allowed one.
C7_EveryUnknownScenarioIsBullet ==
    Done("validate_allowed_scenarios") =>
        /\ status = "True" <=> ScenariosOfDf \subseteq Range(args.allowed_scenarios)
        /\ status = "False" =>
              /\ HeadingLogged
              /\ \A x \in NotAllowed : BulletFor(x)
        /\ \A x \in Range(args.allowed_scenarios) : ~BulletFor(x)

\* C7 as amended: the same, but the bullets are min(k, 100) distinct
\* scenarios among the k that are not allowed (all of them when k <= 100),
\* followed when k > 100 by the line 'and <k - 100> more...'.
C7_UnknownScenariosUpToLimit ==
    Done("validate_allowed_scenarios") =>
        /\ status \in {"True", "False"}
        /\ status = "True" <=> ScenariosOfDf \subseteq Range(args.allowed_scenarios)
        /\ status = "True" => log = <<>>
        /\ status = "False" =>
              LET k == Cardinality(NotAllowed)
                  shown == {x \in NotAllowed : BulletFor(x)}
              IN  /\ log[1] = Msg("WARNING", "heading", "Scenario(s) not allowed", 0, <<>>)
                  /\ Count(log, IsBullet) = Min(k, DefaultLimit)
                  /\ Cardinality(shown) = Min(k, DefaultLimit)
                  /\ k <= DefaultLimit => Len(log) = 1 + k
                  /\ k > DefaultLimit =>
                        /\ Len(log) = DefaultLimit + 2
                        /\ log[Len(log)] = Msg("WARNING", "more", "", k - DefaultLimit, <<>>)
        /\ \A x \in Range(args.allowed_scenarios) : ~BulletFor(x)

\* C7 witness: more scenarios than the limit are not allowed, and the
\* summary line stands for the one that got no bullet.
C7_Witness ==
    /\ Done("validate_allowed_scenarios")
    /\ status = "False"
    /\ Cardinality(NotAllowed) = DefaultLimit + 1
    /\ \E x \in NotAllowed : ~BulletFor(x)
    /\ Logged(Msg("WARNING", "more", "", 1, <<>>))

ResolverOutcome ==
    /\ ~args.mappings.isdir =>
          /\ status = "IxmpServerWorkflowError"
          /\ value = <<>>
    /\ args.mappings.isdir =>
          /\ Matches(args.model) # {} =>
                /\ status = "mapping"
                /\ value = <<Content(FirstMatch(args.model))>>
          /\ Matches(args.model) = {} =>
                /\ status = "IxmpServerWorkflowError"
                /\ value = <<>>

\* C8 as stated: get_region_mapping raises the configuration error when the
\* path is no directory; otherwise it returns the content of the first
\* listed .yaml or .yml file whose model equals the requested one, and
\* raises the not-found error if and only if there is none; it has no
\* effect other than reading files (nothing is logged).
C8_ResolverWithoutSideEffect ==
    Done("get_region_mapping") => (ResolverOutcome /\ log = <<>>)

\* C8 as amended: the same outcome; nothing is logged when the path is a
\* directory, and when it is not the error's message is logged once at
\* ERROR level before the error is raised.
C8_ResolverLogsDirectoryError ==
    Done("get_region_mapping") =>
        /\ ResolverOutcome
        /\ args.mappings.isdir => log = <<>>
        /\ ~args.mappings.isdir => log = <<Msg("ERROR", "line", NoDirectory, 0, <<>>)>>

\* C8 witness: two listed files declare the requested model with different
\* content and the first one is returned.
C8_Witness ==
    /\ Done("get_region_mapping")
    /\ status = "mapping"
    /\ Cardinality(Matches(args.model)) = 2
    /\ \E k \in Matches(args.model) : <<Content(args.mappings.listing[k])>> # value

\* C9 as stated: the second run of a validator on the same dataset and
\* configuration gives the same result and the same sequence of messages.
C9_SameResultSameLog ==
    (fn \in Validators /\ pc = "done" /\ run = 2) =>
        (status = prev.status /\ log = prev.log)

SameUpToSetOrder(m1, m2) ==
    /\ m1.level = m2.level
    /\ m1.fmt = m2.fmt
    /\ m1.text = m2.text
    /\ m1.fmt # "bullet" =>
          /\ m1.arg = m2.arg
          /\ Len(m1.items) = Len(m2.items)
          /\ Range(m1.items) = Range(m2.items)
Bullets(l) == {[arg |-> l[k].arg, items |-> l[k].items] : k \in {j \in 1..Len(l) : IsBullet(l[j])}}
Truncated(l) == \E k \in 1..Len(l) : l[k].fmt = "more"

\* C9 as amended: the second run ends the same way (the same boolean, or
\* the same exception) and logs as many messages, with the same level and
\* wording at each position; the names joined in one message are the same
\* set, and the bullets of the run are the same set unless a batch was cut
\* at the limit; their order may differ.
C9_SameResultSameLogUpToSetOrder ==
    (fn \in Validators /\ pc = "done" /\ run = 2) =>
        /\ status = prev.status
        /\ Len(log) = Len(prev.log)
        /\ \A k \in 1..Len(log) : k <= Len(prev.log) => SameUpToSetOrder(log[k], prev.log[k])
        /\ ~Truncated(log) => Bullets(log) = Bullets(prev.log)

\* C9 witness: the second run of a validator logged the same messages in
\* another order.
C9_Witness ==
    /\ fn \in Validators /\ pc = "done" /\ run = 2
    /\ log # prev.log
    /\ status = prev.status

\* C10: log_validation_errors with n errors and limit >= 0 logs, all at the
\* given level, the heading, then the first min(n, limit) errors in list
\* order as bullets, then 'and <n - limit> more...' if and only if
\* n > limit; bullets and suppressed count add up to n.
C10_LogValidationErrors ==
    (Done("log_validation_errors") /\ args.limit >= 0) =>
        LET n == Len(args.errors)
            shown == Min(n, args.limit)
            IsMore(m) == m.fmt = "more"
        IN  /\ Len(log) = 1 + shown + (IF n > args.limit THEN 1 ELSE 0)
            /\ log[1] = Msg(args.level, "heading", args.message, 0, <<>>)
            /\ \A k \in 1..shown :
                  log[1 + k] = Msg(args.level, "bullet", "",
                                   args.errors[k].arg, args.errors[k].items)
            /\ n > args.limit =>
                  /\ log[Len(log)] = Msg(args.level, "more", "", n - args.limit, <<>>)
                  /\ shown + log[Len(log)].arg = n
            /\ Count(log, IsMore) = (IF n > args.limit THEN 1 ELSE 0)
            /\ Count(log, IsBullet) + (IF n > args.limit THEN n - args.limit ELSE 0) = n

\* C10 witness: a batch longer than a positive limit was cut.
C10_Witness ==
    /\ Done("log_validation_errors")
    /\ args.limit >= 1
    /\ Len(args.errors) > args.limit + 1
    /\ Len(log) = args.limit + 2

=============================================================================
